---- MODULE Spec2Model ----
(***************************************************************************)
(* Model of the real-time event engine of manifold-llm-bot: the Bot class  *)
(* of src/bot.py (push-feed session, reconnection, keepalive, trade and    *)
(* exit handlers), the position database of src/trade_database.py, the    *)
(* market types of src/manifold/types.py and the staking math of          *)
(* src/calculations.py.                                                    *)
(*                                                                         *)
(* Threads: the main thread (run), one thread per WebSocketApp (it runs    *)
(* run_forever and every callback of that socket, on_close and the         *)
(* reconnect sequence included) and the ping threads started by on_open.   *)
(* A step of a thread is at most the code between two blocking calls (a    *)
(* sleep, a network wait); the handling of one inbound frame is one step.  *)
(* In attempt_reconnection the test of line 319 and the attempt of line    *)
(* 323 are two steps: other threads run between them. The test of the      *)
(* reentrancy flag (lines 285, 290) and its setting (line 294) are one     *)
(* step. What the websocket library does (a thread per WebSocketApp, one   *)
(* on_close per socket after it closed or failed to connect, close()       *)
(* callable from any thread) is modelled from the library's behaviour.     *)
(***************************************************************************)
EXTENDS Integers, Sequences, FiniteSets, TLC

\* ---------------------------------------------------------------- bounds
\* socket/thread slots that may be alive at the same time in the session
\* specification (a slot is reused once its socket thread has ended)
MaxSockets == 3
\* the same, in the specification that also delivers market and bet events
EventSockets == 2
\* largest transaction id the model follows within one connection
MaxTxid == 2
\* ping threads that may be alive at the same time
MaxPings == 2
\* self.max_reconnect_attempts; the source sets 10 (src/bot.py line 54), the
\* model runs the same loop with a smaller limit
max_reconnect_attempts == 3

Slots == 1..MaxSockets
Markets == {1}
\* topic 0 is "global/new-contract", topic m is "contract/{m}/new-bet"
NewContract == 0
BetTopic(m) == m
Topics == {NewContract} \cup Markets
\* self.ws = None
NoWs == 0

\* ------------------------------------------------------------ JSON values
\* a number n/d (d > 0), a boolean, or null, in one record shape
Num(n, d) == [t |-> "num", n |-> n, d |-> d]
Bool(b) == [t |-> "bool", n |-> IF b THEN 1 ELSE 0, d |-> 1]
Null == [t |-> "null", n |-> 0, d |-> 1]
\* the value a Python expression has when its evaluation raised
Raised == [t |-> "raised", n |-> 0, d |-> 1]

IsNum(a) == a.t = "num"
RLess(a, b) == a.n * b.d < b.n * a.d
RLeq(a, b) == a.n * b.d <= b.n * a.d
REq(a, b) == a.n * b.d = b.n * a.d
RSub(a, b) == Num(a.n * b.d - b.n * a.d, a.d * b.d)
RMul(a, b) == Num(a.n * b.n, a.d * b.d)
RNeg(a) == Num(0 - a.n, a.d)
\* a / b; ZeroDivisionError when b is 0
RDiv(a, b) ==
    IF b.n = 0 THEN Raised
    ELSE IF b.n > 0 THEN Num(a.n * b.d, a.d * b.n)
    ELSE Num(0 - a.n * b.d, 0 - a.d * b.n)
RMin(a, b) == IF RLess(b, a) THEN b ELSE a
Zero == Num(0, 1)
One == Num(1, 1)

\* -------------------------------------------------------- src/calculations
\* a kelly_fraction that divides by the wrong side of the market: by c when
\* p > c and by 1 - c when p < c
kelly_fraction_swapped(p, c, alpha) ==
    IF ~IsNum(p) \/ ~IsNum(c) THEN Raised
    ELSE IF RLess(c, p)
         THEN LET f == RDiv(RSub(p, c), c)
              IN IF IsNum(f) THEN RMul(alpha, f) ELSE Raised
    ELSE IF RLess(p, c)
         THEN LET f == RDiv(RSub(c, p), RSub(One, c))
              IN IF IsNum(f) THEN RMul(RNeg(alpha), f) ELSE Raised
    ELSE Zero

\* kelly_fraction(predicted_probability, current_market_probability, alpha)
kelly_fraction(p, c, alpha) ==
    IF ~IsNum(p) \/ ~IsNum(c) THEN Raised        \* TypeError of the comparison
    ELSE IF RLess(c, p)
         THEN LET f == RDiv(RSub(p, c), RSub(One, c))
              IN IF IsNum(f) THEN RMul(alpha, f) ELSE Raised
    ELSE IF RLess(p, c)
         THEN LET f == RDiv(RSub(c, p), c)
              IN IF IsNum(f) THEN RMul(RNeg(alpha), f) ELSE Raised
    ELSE Zero

\* kelly_bet(...): the pair (amount, side), or raised
kelly_bet(p, c, alpha, bankroll, max_bet_amount) ==
    LET f == kelly_fraction(p, c, alpha)
    IN IF ~IsNum(f) THEN [amount |-> Raised, side |-> "-"]
       ELSE LET bet == RMul(bankroll, f)
            IN IF RLess(Zero, bet)
               THEN [amount |-> RMin(bet, max_bet_amount), side |-> "YES"]
               ELSE IF RLess(bet, Zero)
               THEN [amount |-> RMin(RNeg(bet), max_bet_amount), side |-> "NO"]
               ELSE [amount |-> Zero, side |-> "NO"]

\* ------------------------------------------------------ src/manifold/types
\* LiteMarket.__init__: the parameters in their declared order, each stored
\* under its own name. (Of the 35 parameters the model carries id,
\* outcomeType and the ten from totalLiquidity to pool; the others are
\* passed and stored in matching positions.)
LiteMarket(id, outcomeType, totalLiquidity, volume, volume24Hours, isResolved, uniqueBettorCount, creatorAvatarUrl, closeTime, p, probability, pool) ==
    [id |-> id, outcomeType |-> outcomeType, totalLiquidity |-> totalLiquidity,
     volume |-> volume, volume24Hours |-> volume24Hours,
     isResolved |-> isResolved, uniqueBettorCount |-> uniqueBettorCount,
     creatorAvatarUrl |-> creatorAvatarUrl, closeTime |-> closeTime, p |-> p,
     probability |-> probability, pool |-> pool]

\* FullMarket.__init__(**d): the positional super().__init__ call of lines
\* 158-194, then the fields FullMarket stores itself
FullMarket(d) ==
    LET lite == LiteMarket(d.id, d.outcomeType, d.probability, d.pool,
                           d.totalLiquidity, d.volume, d.volume24Hours,
                           d.isResolved, d.uniqueBettorCount,
                           d.creatorAvatarUrl, d.closeTime, d.p)
    IN [f \in DOMAIN lite \cup {"groupSlugs"} |->
           IF f = "groupSlugs" THEN d.groupSlugs ELSE lite[f]]

\* ---------------------------------------------------------- configuration
\* the values Bot.__init__ receives from the configuration file
config ==
    [max_trade_amount |-> Num(100, 1), kelly_alpha |-> Num(1, 2),
     exclude_groups |-> {"excluded"}]

\* ------------------------------------------------------------------ state
VARIABLES
    is_running, is_reconnecting, reconnect_attempts, ws, txid,
    subscribed_topics,
    auto_sell_threshold,   \* Null when the configuration sets none
    db,        \* the positions table: market id -> row, NoPosition when absent
    sock,      \* per slot: state of the library socket of that WebSocketApp
    pc,        \* per slot: position of the socket's thread
    ping,      \* number of live ping threads (each was started by an on_open)
    mainpc,    \* position of the main thread in run()
    wire,      \* per slot: topics the server holds subscribed on that socket
    slots,     \* socket slots of this run
    ev,        \* what the handling of the last inbound frame did; NoEv otherwise
    kin, kout, \* arguments and result of a kelly_bet call
    sender,    \* per sending thread: how far it is with the message it sends
    sent       \* the txids handed to ws.send on the connection, in order

vars == <<is_running, is_reconnecting, reconnect_attempts, ws, txid,
          subscribed_topics, auto_sell_threshold, db, sock, pc, ping,
          mainpc, wire, slots, ev, kin, kout, sender, sent>>

\* what no step of the session and of the frame handlers changes (they send
\* a message, txid and all, in one step)
fixed == <<auto_sell_threshold, slots, kin, kout, sender, sent>>

\* the threads that send on the socket: a ping thread, and the socket's own
\* thread running the callbacks
Senders == {"ping", "callback"}
NotSending == [at |-> "idle", txid |-> 0, loaded |-> 0, type |-> "-", topics |-> {}]

\* no row for the market id
NoPosition == [outcome |-> "-", shares |-> 0]
\* rows the table can hold; shares 0 is an order accepted but not filled
Positions == [outcome : {"YES", "NO"}, shares : {0, 1}]

NoEv == [kind |-> "none"]
NoKelly == [amount |-> Null, side |-> "-"]
KellyExample ==
    [p |-> Num(6, 10), c |-> Num(4, 10), alpha |-> Num(1, 1),
     bankroll |-> Num(1000, 1), max_bet_amount |-> Num(100, 1)]

\* self.ws and self.ws.sock and self.ws.sock.connected
connected == ws # NoWs /\ sock[ws] = "open"

FreeSlots == {n \in 1..slots : pc[n] = "idle"}
NewSlot == CHOOSE n \in FreeSlots : \A k \in FreeSlots : n <= k

\* the process is running and no frame handler is about to return
Alive == mainpc = "loop" /\ ev = NoEv

\* WebSocketApp.close() called from any thread
ws_close(sk, s) ==
    [sk EXCEPT ![s] = IF @ \in {"connecting", "open"} THEN "closed" ELSE @]

\* the state after Bot.__init__, with the database file as earlier runs left it
InitBot(SavedRows) ==
    /\ is_running = FALSE
    /\ is_reconnecting = FALSE
    /\ reconnect_attempts = 0
    /\ ws = NoWs
    /\ txid = 0
    /\ subscribed_topics = {}
    /\ db \in [Markets -> SavedRows]
    /\ sock = [s \in Slots |-> "free"]
    /\ pc = [s \in Slots |-> "idle"]
    /\ ping = 0
    /\ mainpc = "init"
    /\ wire = [s \in Slots |-> {}]
    /\ ev = NoEv
    /\ kout = NoKelly
    /\ sender = [t \in Senders |-> NotSending]
    /\ sent = <<>>

Init ==
    /\ InitBot(Positions \cup {NoPosition})
    /\ auto_sell_threshold \in {Null, Num(9, 10)}
    /\ slots = EventSockets
    /\ kin = KellyExample

InitSession ==
    /\ InitBot({NoPosition, [outcome |-> "YES", shares |-> 1]})
    /\ auto_sell_threshold = Num(9, 10)
    /\ slots = MaxSockets
    /\ kin = KellyExample

\* ------------------------------------------------------------ the socket
\* state threaded through the sends of one handler: the Subscription Set,
\* the transaction id, the server side of each socket, whether a send
\* raised, the number of frames handed to ws.send so far, and what the
\* test of line 368 finds
SendState(conn) ==
    [subs |-> subscribed_topics, txid |-> txid, wire |-> wire,
     raised |-> FALSE, sends |-> 0, connected |-> conn]

\* a subscribe_to_topics that does not filter the topics against the
\* Subscription Set
subscribe_unfiltered(b, topics, unsubscribe, failAt) ==
    IF ~b.connected THEN b
    ELSE LET subs2 == IF unsubscribe THEN b.subs \ topics ELSE b.subs \cup topics
         IN IF topics = {} THEN b
            ELSE IF b.sends + 1 = failAt
                 THEN [b EXCEPT !.subs = subs2, !.raised = TRUE, !.sends = @ + 1]
                 ELSE [b EXCEPT !.subs = subs2, !.txid = @ + 1, !.sends = @ + 1,
                                !.wire = [@ EXCEPT ![ws] =
                                    IF unsubscribe THEN @ \ topics
                                    ELSE @ \cup topics]]

\* Bot.subscribe_to_topics; the failAt-th send of the handler raises
subscribe_to_topics(b, topics, unsubscribe, failAt) ==
    IF ~b.connected THEN b
    ELSE LET topics_to_process ==
                 IF unsubscribe THEN topics \cap b.subs ELSE topics \ b.subs
             subs2 == IF unsubscribe THEN b.subs \ topics_to_process
                      ELSE b.subs \cup topics_to_process
         IN IF topics_to_process = {} THEN b
            ELSE IF b.sends + 1 = failAt
                 THEN [b EXCEPT !.subs = subs2, !.raised = TRUE, !.sends = @ + 1]
                 ELSE [b EXCEPT !.subs = subs2, !.txid = @ + 1, !.sends = @ + 1,
                                !.wire = [@ EXCEPT ![ws] =
                                    IF unsubscribe THEN @ \ topics_to_process
                                    ELSE @ \cup topics_to_process]]

\* Bot.connect_websocket called by `caller` (a slot, or 0 for the main thread)
connect_websocket(caller, nextpc) ==
    /\ FreeSlots # {}
    /\ LET n == NewSlot
           sock1 == IF ws # NoWs THEN ws_close(sock, ws) ELSE sock
       IN /\ sock' = [sock1 EXCEPT ![n] = "connecting"]
          /\ pc' = [s \in Slots |-> IF s = n THEN "run"
                                    ELSE IF s = caller THEN nextpc ELSE pc[s]]
          /\ wire' = [wire EXCEPT ![n] = {}]
          /\ ws' = n

\* MarketPositionDB.get_all_positions: the market ids that have a row
RECURSIVE get_all_positions(_)
get_all_positions(ms) ==
    IF ms = {} THEN <<>>
    ELSE LET m == CHOOSE x \in ms : \A y \in ms : x <= y
         IN IF db[m] = NoPosition THEN get_all_positions(ms \ {m})
            ELSE <<m>> \o get_all_positions(ms \ {m})

\* Bot.get_my_positions: the loop stops at the first send that raises
RECURSIVE get_my_positions(_, _, _)
get_my_positions(b, saved_positions, failAt) ==
    IF saved_positions = <<>> \/ b.raised THEN b
    ELSE get_my_positions(
             subscribe_to_topics(b, {BetTopic(Head(saved_positions))}, FALSE, failAt),
             Tail(saved_positions), failAt)

\* ------------------------------------------------ websocket library steps
\* the connection attempt fails or the open connection is lost
LibDrop(s) ==
    /\ Alive
    /\ sock[s] \in {"connecting", "open"}
    /\ sock' = [sock EXCEPT ![s] = "closed"]
    /\ ev' = NoEv
    /\ UNCHANGED <<is_running, is_reconnecting, reconnect_attempts, ws, txid,
                   subscribed_topics, pc, ping, mainpc, wire, db, fixed>>

\* --------------------------------------------------------- Bot callbacks
\* a sequence that gives up after its first failed attempt
ar_loop_one_attempt(attempts) ==
    IF is_running /\ attempts < 1
    THEN [is_running |-> is_running, is_reconnecting |-> TRUE,
          reconnect_attempts |-> attempts + 1, to |-> "ar_sleep"]
    ELSE [is_running |-> FALSE, is_reconnecting |-> FALSE,
          reconnect_attempts |-> attempts, to |-> "return"]

\* Bot.attempt_reconnection lines 297-301 and 343-351, with the flag set and
\* the counter read as `attempts`: the loop test, then either the next
\* attempt's counter and backoff sleep, or the exit of the sequence
ar_loop(attempts) ==
    IF is_running /\ attempts < max_reconnect_attempts
    THEN [is_running |-> is_running, is_reconnecting |-> TRUE,
          reconnect_attempts |-> attempts + 1, to |-> "ar_sleep"]
    ELSE [is_running |-> IF attempts >= max_reconnect_attempts
                         THEN FALSE ELSE is_running,
          is_reconnecting |-> FALSE,
          reconnect_attempts |-> attempts, to |-> "return"]

\* attempt_reconnection returns on the thread of slot s, which called it from
\* on_close (line 286): on_close returns, run_forever returns, the thread ends
\* and the slot is released
ar_return(s, sk, wr) ==
    /\ pc' = [pc EXCEPT ![s] = "idle"]
    /\ sock' = [sk EXCEPT ![s] = "free"]
    /\ wire' = [wr EXCEPT ![s] = {}]

\* the thread of slot s goes on from the loop test `a`
after_loop(s, a, sk, wr) ==
    /\ is_running' = a.is_running
    /\ is_reconnecting' = a.is_reconnecting
    /\ reconnect_attempts' = a.reconnect_attempts
    /\ IF a.to = "ar_sleep"
       THEN /\ pc' = [pc EXCEPT ![s] = "ar_sleep"]
            /\ sock' = sk
            /\ wire' = wr
       ELSE ar_return(s, sk, wr)

\* the handshake of socket s succeeds and its thread runs Bot.on_open; the
\* failAt-th send raises (0: none does)
OnOpenWith(s, failAt) ==
    /\ Alive
    /\ pc[s] = "run" /\ sock[s] = "connecting"
    /\ LET b1 == subscribe_to_topics(SendState(ws = s \/ connected),
                                     {NewContract}, FALSE, failAt)
           b2 == IF b1.raised THEN b1
                 ELSE get_my_positions(b1, get_all_positions(Markets), failAt)
           sk == [sock EXCEPT ![s] = "open"]
       IN /\ b2.txid <= MaxTxid
          /\ subscribed_topics' = b2.subs
          /\ txid' = b2.txid
          /\ reconnect_attempts' = 0
          /\ is_reconnecting' = FALSE
          /\ sock' = sk
          /\ wire' = b2.wire
          /\ IF b1.raised
             THEN \* the exception leaves on_open at line 361
                  UNCHANGED ping
             ELSE \* a send that raises in get_my_positions is logged there
                  \* (lines 81-82); line 364 starts the ping thread
                  /\ ping < MaxPings
                  /\ ping' = ping + 1
          /\ UNCHANGED <<is_running, pc>>
    /\ ev' = NoEv
    /\ UNCHANGED <<ws, mainpc, db, fixed>>

OnOpen(s) == \E failAt \in 0..2 : OnOpenWith(s, failAt)

\* Bot.on_close, run by the thread of socket s once the socket is closed;
\* with the flag clear it goes on into attempt_reconnection (lines 290-301)
OnClose(s) ==
    /\ Alive
    /\ pc[s] = "run" /\ sock[s] = "closed"
    /\ subscribed_topics' = {}
    /\ ws' = NoWs
    /\ txid' = 0
    /\ IF is_running /\ ~is_reconnecting
       THEN after_loop(s, ar_loop(reconnect_attempts), sock, wire)
       ELSE /\ ar_return(s, sock, wire)
            /\ UNCHANGED <<is_running, is_reconnecting, reconnect_attempts>>
    /\ ev' = NoEv
    /\ UNCHANGED <<ping, mainpc, db, fixed>>

\* lines 317-320 and 343-351: the backoff sleep ends
ArSleep(s) ==
    /\ Alive
    /\ pc[s] = "ar_sleep"
    /\ IF ~is_running
       THEN /\ is_reconnecting' = FALSE
            /\ ar_return(s, sock, wire)
       ELSE /\ pc' = [pc EXCEPT ![s] = "ar_connect"]
            /\ UNCHANGED <<is_reconnecting, sock, wire>>
    /\ ev' = NoEv
    /\ UNCHANGED <<is_running, reconnect_attempts, ws, txid, subscribed_topics,
                   ping, mainpc, db, fixed>>

\* line 323: the attempt
ArConnect(s) ==
    /\ Alive
    /\ pc[s] = "ar_connect"
    /\ connect_websocket(s, "ar_check")
    /\ ev' = NoEv
    /\ UNCHANGED <<is_running, is_reconnecting, reconnect_attempts, txid,
                   subscribed_topics, ping, mainpc, db, fixed>>

\* lines 325-336: the check after two seconds, then the loop test again
ArCheck(s) ==
    /\ Alive
    /\ pc[s] = "ar_check"
    /\ IF connected
       THEN /\ reconnect_attempts' = 0
            /\ is_reconnecting' = FALSE
            /\ UNCHANGED is_running
            /\ ar_return(s, sock, wire)
       ELSE after_loop(s, ar_loop(reconnect_attempts), sock, wire)
    /\ ev' = NoEv
    /\ UNCHANGED <<ws, txid, subscribed_topics, ping, mainpc, db, fixed>>

\* a ping thread that forgets the stored Positions when it gives the
\* connection up
PingStepForgetting ==
    /\ Alive
    /\ ping > 0
    /\ is_running /\ connected
    /\ sock' = ws_close(sock, ws)
    /\ ping' = ping - 1
    /\ db' = [m \in Markets |-> NoPosition]
    /\ ev' = NoEv
    /\ UNCHANGED <<is_running, is_reconnecting, reconnect_attempts, ws, txid,
                   subscribed_topics, pc, mainpc, wire, fixed>>

\* Bot.ping_thread: one round of the loop of one of the live ping threads
PingStep ==
    /\ Alive
    /\ ping > 0
    /\ IF ~(is_running /\ connected)
       THEN /\ ping' = ping - 1
            /\ UNCHANGED <<sock, txid>>
       ELSE \/ /\ sock' = ws_close(sock, ws)   \* no ack for 120s, or the send raised
               /\ ping' = ping - 1
               /\ UNCHANGED txid
            \/ /\ txid < MaxTxid
               /\ txid' = txid + 1
               /\ UNCHANGED <<sock, ping>>
    /\ ev' = NoEv
    /\ UNCHANGED <<is_running, is_reconnecting, reconnect_attempts, ws,
                   subscribed_topics, pc, mainpc, wire, db, fixed>>

\* ---------------------------------------------------------- main thread
\* Bot.run lines 446-447
Run ==
    /\ mainpc = "init" /\ ev = NoEv
    /\ is_running' = TRUE
    /\ connect_websocket(0, "idle")
    /\ mainpc' = "loop"
    /\ ev' = NoEv
    /\ UNCHANGED <<is_reconnecting, reconnect_attempts, txid, subscribed_topics,
                   ping, db, fixed>>

\* run returns and the process ends: the daemon threads die with it and only
\* the database file is left
ProcessExit ==
    /\ is_running' = FALSE
    /\ is_reconnecting' = FALSE
    /\ reconnect_attempts' = 0
    /\ ws' = NoWs
    /\ txid' = 0
    /\ subscribed_topics' = {}
    /\ sock' = [s \in Slots |-> "free"]
    /\ pc' = [s \in Slots |-> "idle"]
    /\ ping' = 0
    /\ wire' = [s \in Slots |-> {}]
    /\ mainpc' = "done"
    /\ ev' = NoEv
    /\ UNCHANGED <<db, fixed>>

\* line 451: the loop sees is_running false
RunReturn ==
    /\ Alive /\ ~is_running
    /\ ProcessExit

\* lines 453-457
KeyboardInterrupt ==
    /\ Alive
    /\ ProcessExit

NextSession ==
    \/ Run \/ RunReturn \/ KeyboardInterrupt \/ PingStep
    \/ \E s \in Slots :
         \/ LibDrop(s) \/ OnOpen(s) \/ OnClose(s)
         \/ ArSleep(s) \/ ArConnect(s) \/ ArCheck(s)

SpecSession == InitSession /\ [][NextSession]_vars

\* ------------------------------------------------------- inbound frames
\* what GET market/{id} can answer for market m
BaseMarket(m) ==
    [id |-> m, outcomeType |-> "BINARY", probability |-> Num(1, 2),
     pool |-> Null, totalLiquidity |-> Num(100, 1), volume |-> Num(7, 1),
     volume24Hours |-> Num(3, 1), isResolved |-> Bool(FALSE),
     uniqueBettorCount |-> Num(2, 1), creatorAvatarUrl |-> Null,
     closeTime |-> Num(2000, 1), p |-> Num(1, 3), groupSlugs |-> {}]

MarketData(m) ==
    { BaseMarket(m),
      [BaseMarket(m) EXCEPT !.closeTime = Null],
      [BaseMarket(m) EXCEPT !.outcomeType = "MULTIPLE_CHOICE"],
      [BaseMarket(m) EXCEPT !.groupSlugs = {"excluded"}],
      [BaseMarket(m) EXCEPT !.isResolved = Bool(TRUE)] }

\* what the handling of a frame did, as far as the claims look at it
Ev(kind, m) ==
    [kind |-> kind, m |-> m,
     fetched |-> FALSE,      \* the market snapshot was fetched
     data |-> {},            \* the snapshot, as a one-element set
     bankroll |-> Null,
     oracle |-> 0,           \* calls of predict_market
     c |-> Null,             \* the market probability handed to kelly_bet
     stake |-> NoKelly,      \* what kelly_bet returned
     orders |-> 0,           \* order submissions
     limit |-> Null,         \* limit probability of the order
     accepted |-> FALSE,     \* the platform accepted the order
     store |-> "-",          \* add_position_limited: "ok" or "raised"
     got |-> FALSE,          \* get_position returned
     position |-> NoPosition,\* the row get_position returned
     probs |-> 0,            \* probability fetches
     prob |-> Null,          \* what the probability fetch returned
     sells |-> 0,            \* sell requests
     sell |-> "-",           \* "200", "400" or "raised"
     raised |-> FALSE]       \* a call raised and the handler's except logged it

\* a can_trade that does not look at the market's groups
can_trade_any_group(market, bankroll) ==
    ~RLess(bankroll, config.max_trade_amount)

\* Bot.can_trade
can_trade(market, bankroll) ==
    IF \E exclude_group \in config.exclude_groups :
           exclude_group \in market.groupSlugs
    THEN FALSE
    ELSE IF RLess(bankroll, config.max_trade_amount) THEN FALSE
    ELSE TRUE

\* a frame handler that lets an exception end the socket's thread
HandledOrEscaped(s, b, newdb, e) ==
    /\ b.txid <= MaxTxid
    /\ subscribed_topics' = b.subs
    /\ txid' = b.txid
    /\ wire' = b.wire
    /\ db' = newdb
    /\ ev' = e
    /\ pc' = IF e.raised THEN [pc EXCEPT ![s] = "idle"] ELSE pc
    /\ sock' = IF e.raised THEN [sock EXCEPT ![s] = "free"] ELSE sock
    /\ UNCHANGED <<is_running, is_reconnecting, reconnect_attempts, ws,
                   ping, mainpc, fixed>>

\* the frame handler of socket s finishes with these effects
Handled(s, b, newdb, e) ==
    /\ b.txid <= MaxTxid
    /\ subscribed_topics' = b.subs
    /\ txid' = b.txid
    /\ wire' = b.wire
    /\ db' = newdb
    /\ ev' = e
    /\ UNCHANGED <<is_running, is_reconnecting, reconnect_attempts, ws, sock,
                   pc, ping, mainpc, fixed>>

\* an order decision that submits the estimate as it is
order_request_as_estimated(probability_estimate, kb) ==
    [orders |-> IF RLess(Zero, kb.amount) THEN 1 ELSE 0,
     limit |-> probability_estimate]

\* Bot.trade_on_market lines 188-201: whether place_limit_order is called for
\* the estimate and the result kb of kelly_bet, and with which probability
order_request(probability_estimate, kb) ==
    [orders |-> IF RLess(Zero, kb.amount) THEN 1 ELSE 0,
     limit |-> IF REq(probability_estimate, Zero) THEN Num(1, 100)
               ELSE probability_estimate]

\* Bot.trade_on_market lines 172-213 for an eligible market: the oracle, the
\* stake, the order, the subscription and the row
trade(s, market, bankroll, e0) ==
    \E probability_estimate \in {Raised, Zero, Num(7, 10)} :
      LET e1 == [e0 EXCEPT !.oracle = 1] IN
      IF ~IsNum(probability_estimate)
      THEN Handled(s, SendState(connected), db, [e1 EXCEPT !.raised = TRUE])
      ELSE
      LET kb == kelly_bet(probability_estimate, market.probability,
                          config.kelly_alpha, bankroll, config.max_trade_amount)
          e2 == [e1 EXCEPT !.c = market.probability, !.stake = kb]
          req == order_request(probability_estimate, kb)
      IN IF ~IsNum(kb.amount)
         THEN Handled(s, SendState(connected), db, [e2 EXCEPT !.raised = TRUE])
         ELSE IF req.orders = 0
         THEN Handled(s, SendState(connected), db, e2)
         ELSE
         LET e3 == [e2 EXCEPT !.orders = req.orders, !.limit = req.limit] IN
         \* place_limit_order raises (the order is rejected) ...
         \/ Handled(s, SendState(connected), db, [e3 EXCEPT !.raised = TRUE])
         \* ... or returns the Bet
         \/ \E shares \in {0, 1}, failAt \in 0..1 :
              LET e4 == [e3 EXCEPT !.accepted = TRUE]
                  b == subscribe_to_topics(SendState(connected),
                                           {BetTopic(market.id)}, FALSE, failAt)
                  row == [outcome |-> kb.side, shares |-> shares]
              IN IF b.raised
                 THEN Handled(s, b, db, [e4 EXCEPT !.raised = TRUE])
                 ELSE \* add_position_limited writes the row, or raises
                      \/ Handled(s, b, [db EXCEPT ![market.id] = row],
                                 [e4 EXCEPT !.store = "ok"])
                      \/ Handled(s, b, db,
                                 [e4 EXCEPT !.store = "raised", !.raised = TRUE])

\* Bot.on_message for a broadcast on global/new-contract naming market m,
\* with Bot.trade_on_market
OnNewContract(s, m) ==
    /\ Alive
    /\ pc[s] = "run" /\ sock[s] \in {"open", "closed"}
    /\ NewContract \in wire[s]
    /\ \* the fetch raises or answers another status than 200
       \/ Handled(s, SendState(connected), db,
                  [Ev("market", m) EXCEPT !.raised = TRUE])
       \/ \E d \in MarketData(m), bankroll \in {Raised, Num(50, 1), Num(1000, 1)} :
            LET market == FullMarket(d)
                e0 == [Ev("market", m) EXCEPT !.fetched = TRUE, !.data = {d},
                                             !.bankroll = bankroll]
            IN IF ~IsNum(bankroll)       \* get_my_account raises
               THEN Handled(s, SendState(connected), db, [e0 EXCEPT !.raised = TRUE])
               ELSE IF market.outcomeType # "BINARY"
               THEN Handled(s, SendState(connected), db, e0)
               ELSE IF ~can_trade(market, bankroll)
               THEN Handled(s, SendState(connected), db, e0)
               ELSE trade(s, market, bankroll, e0)

\* a payout test that sells only strictly above the threshold
should_sell_above(position, probability) ==
    /\ position.shares > 0
    /\ LET payout_percentage ==
               IF position.outcome = "YES" THEN probability
               ELSE RSub(One, probability)
       IN RLess(auto_sell_threshold, payout_percentage)

\* the payout test of Bot.handle_new_bet lines 102-108
should_sell(position, probability) ==
    /\ position.shares > 0
    /\ LET payout_percentage ==
               IF position.outcome = "YES" THEN probability
               ELSE RSub(One, probability)
       IN RLeq(auto_sell_threshold, payout_percentage)

\* a handler that removes the row whatever the sell request answered
after_any_sell(m, status) == [db EXCEPT ![m] = NoPosition]

\* lines 118-122: the table after the sell request answered with status
after_sell(m, status) ==
    IF status = "200" THEN [db EXCEPT ![m] = NoPosition] ELSE db

\* a handler that goes on without a configured threshold
skipping_without_row(position) == position = NoPosition

\* the two early returns of Bot.handle_new_bet, lines 88-94
skipping(position) == position = NoPosition \/ auto_sell_threshold = Null

\* Bot.on_message for a broadcast on contract/{m}/new-bet, with
\* Bot.handle_new_bet
OnNewBet(s, m) ==
    /\ Alive
    /\ pc[s] = "run" /\ sock[s] \in {"open", "closed"}
    /\ BetTopic(m) \in wire[s]
    /\ LET position == db[m]
           e0 == [Ev("bet", m) EXCEPT !.got = TRUE, !.position = position]
       IN \* get_position raises
          \/ Handled(s, SendState(connected), db,
                     [Ev("bet", m) EXCEPT !.raised = TRUE])
          \/ IF skipping(position)
             THEN Handled(s, SendState(connected), db, e0)
             ELSE \E r \in {Raised, Null, Num(1, 10), Num(17, 20), Num(9, 10)} :
               LET e1 == [e0 EXCEPT !.probs = 1, !.prob = r]
                   \* .get("prob", 0)
                   probability == IF r = Null THEN Zero ELSE r
               IN IF r = Raised
                  THEN Handled(s, SendState(connected), db, [e1 EXCEPT !.raised = TRUE])
                  ELSE IF ~should_sell(position, probability)
                  THEN Handled(s, SendState(connected), db, e1)
                  ELSE
                  LET e2 == [e1 EXCEPT !.sells = 1] IN
                  \/ Handled(s, SendState(connected), db,
                             [e2 EXCEPT !.sell = "raised", !.raised = TRUE])
                  \/ Handled(s, SendState(connected), after_sell(m, "400"),
                             [e2 EXCEPT !.sell = "400"])
                  \/ \* status 200, and remove_position raises
                     Handled(s, SendState(connected), db,
                             [e2 EXCEPT !.sell = "200", !.raised = TRUE])
                  \/ \E failAt \in 0..1 :
                       LET b == subscribe_to_topics(SendState(connected),
                                                    {BetTopic(m)}, TRUE, failAt)
                       IN Handled(s, b, after_sell(m, "200"),
                                  [e2 EXCEPT !.sell = "200", !.raised = b.raised])

\* Bot.on_message for any other frame: an acknowledgement (lines 221-224), a
\* frame json.loads cannot decode (caught at line 266), a broadcast on a topic
\* the bot does not know (line 265)
OnOtherFrame(s) ==
    /\ Alive
    /\ pc[s] = "run" /\ sock[s] \in {"open", "closed"}
    /\ \E kind \in {"ack", "undecodable", "unrecognized"} :
         Handled(s, SendState(connected), db,
                 [Ev(kind, 0) EXCEPT !.raised = (kind = "undecodable")])

\* on_message returns to run_forever
OnMessageReturn ==
    /\ ev # NoEv
    /\ ev' = NoEv
    /\ UNCHANGED <<is_running, is_reconnecting, reconnect_attempts, ws, txid,
                   subscribed_topics, db, sock, pc, ping, mainpc, wire,
                   fixed>>

Next ==
    \/ NextSession
    \/ OnMessageReturn
    \/ \E s \in Slots, m \in Markets : OnNewContract(s, m) \/ OnNewBet(s, m)
    \/ \E s \in Slots : OnOtherFrame(s)

Spec == Init /\ [][Next]_vars

\* ------------------------------------------------ the staking calculator
\* arguments of kelly_bet: probabilities in tenths, 0 and 1 included
KellyInputs ==
    [p : {Num(k, 10) : k \in 0..10}, c : {Num(k, 10) : k \in 0..10},
     alpha : {Num(1, 4), Num(1, 2), Num(1, 1)},
     bankroll : {Num(1, 1), Num(1000, 1)},
     max_bet_amount : {Num(1, 1), Num(100, 1), Num(2000, 1)}]

InitKelly ==
    /\ InitBot({NoPosition})
    /\ auto_sell_threshold = Null
    /\ slots = EventSockets
    /\ kin \in KellyInputs

\* a call kelly_bet(p, c, alpha, bankroll, max_bet_amount)
KellyCall ==
    /\ kout = NoKelly
    /\ kout' = kelly_bet(kin.p, kin.c, kin.alpha, kin.bankroll, kin.max_bet_amount)
    /\ UNCHANGED <<is_running, is_reconnecting, reconnect_attempts, ws, txid,
                   subscribed_topics, auto_sell_threshold, db, sock, pc,
                   ping, mainpc, wire, slots, ev, kin, sender, sent>>

NextKelly == KellyCall

SpecKelly == InitKelly /\ [][NextKelly]_vars

\* --------------------------------- the order decision of trade_on_market
\* lines 180-201 for an estimate p and a market probability c: kelly_bet, then
\* the order decision
StakeCall ==
    /\ ev = NoEv
    /\ LET kb == kelly_bet(kin.p, kin.c, kin.alpha, kin.bankroll, kin.max_bet_amount)
       IN /\ IsNum(kb.amount)
          /\ ev' = [kind |-> "stake", probability_estimate |-> kin.p,
                    stake |-> kb, request |-> order_request(kin.p, kb)]
    /\ UNCHANGED <<is_running, is_reconnecting, reconnect_attempts, ws, txid,
                   subscribed_topics, db, sock, pc, ping, mainpc,
                   wire, fixed>>

NextStake == StakeCall

SpecStake == InitKelly /\ [][NextStake]_vars

\* ------------------------------------------- place_limit_order on its own
\* manifold/utils.py place_limit_order: the requests it makes, as a sequence
\* of [url, json] with the JSON object as its set of keys and their values,
\* and what it returns; `status` is the platform's answer to the POST
place_limit_order(market_id, probability, amount, binary_outcome, expires_millis_after, dry_run, status) ==
    LET exp == expires_millis_after # Null /\ expires_millis_after # Num(0, 1)
        post_dict ==
            [keys |-> {"amount", "contractId", "limitProb", "outcome"}
                      \cup (IF exp THEN {"expiresMillisAfter"} ELSE {})
                      \cup (IF dry_run THEN {"dryRun"} ELSE {}),
             amount |-> amount, contractId |-> market_id,
             limitProb |-> probability, outcome |-> binary_outcome,
             expiresMillisAfter |-> IF exp THEN expires_millis_after ELSE Null,
             dryRun |-> IF dry_run THEN Bool(TRUE) ELSE Null]
    IN [posts |-> << [url |-> "bet", json |-> post_dict] >>,
        raised |-> status # "200",
        bet |-> IF status = "200" THEN "response.json()" ELSE "-"]

OrderInputs ==
    [market_id : Markets, probability : {Num(1, 100), Num(3, 10), Num(7, 10)},
     amount : {Num(1, 1), Num(100, 1)}, binary_outcome : {"YES", "NO"},
     expires_millis_after : {Null, Num(0, 1), Num(60000, 1)},
     dry_run : BOOLEAN, status : {"200", "403"}]

InitOrder ==
    /\ InitBot({NoPosition})
    /\ auto_sell_threshold = Null
    /\ slots = EventSockets
    /\ kin = KellyExample

\* a call of place_limit_order as trade_on_market makes it (bot.py lines
\* 193-201)
OrderCall ==
    /\ \E i \in OrderInputs :
         LET r == place_limit_order(i.market_id, i.probability, i.amount, i.binary_outcome, i.expires_millis_after, i.dry_run, i.status)
         IN ev' = [kind |-> "order", args |-> i, posts |-> r.posts,
                   raised |-> r.raised, bet |-> r.bet]
    /\ UNCHANGED <<is_running, is_reconnecting, reconnect_attempts, ws, txid,
                   subscribed_topics, db, sock, pc, ping, mainpc,
                   wire, fixed>>

NextOrder == OrderCall

SpecOrder == InitOrder /\ [][NextOrder]_vars

\* ------------------------------------- frame handling as begin and end
\* The handling of a frame takes time (the market fetch, the oracle call, the
\* order): here it is two steps of the socket's thread, with the other
\* threads running in between.
Handling == {s \in Slots : pc[s] \in {"on_message", "oracle_wait", "order_accepted"}}

\* run_forever of socket s reads a broadcast and calls Bot.on_message
FrameBegin(s) ==
    /\ Alive
    /\ pc[s] = "run" /\ sock[s] = "open"
    /\ wire[s] # {}
    /\ pc' = [pc EXCEPT ![s] = "on_message"]
    /\ ev' = NoEv
    /\ UNCHANGED <<is_running, is_reconnecting, reconnect_attempts, ws, txid,
                   subscribed_topics, sock, ping, mainpc, wire, db, fixed>>

\* predict_market (line 140) is called for a new contract and does not return
OracleHangs(s) ==
    /\ Alive
    /\ pc[s] = "on_message"
    /\ NewContract \in wire[s]
    /\ pc' = [pc EXCEPT ![s] = "oracle_wait"]
    /\ ev' = NoEv
    /\ UNCHANGED <<is_running, is_reconnecting, reconnect_attempts, ws, txid,
                   subscribed_topics, sock, ping, mainpc, wire, db, fixed>>

\* the handler of socket s returns to run_forever with these effects
FrameDone(s, b, newdb) ==
    /\ b.txid <= MaxTxid
    /\ subscribed_topics' = b.subs
    /\ txid' = b.txid
    /\ wire' = b.wire
    /\ db' = newdb
    /\ pc' = [pc EXCEPT ![s] = "run"]
    /\ ev' = NoEv
    /\ UNCHANGED <<is_running, is_reconnecting, reconnect_attempts, ws, sock,
                   ping, mainpc, fixed>>

\* Bot.on_message returns on the thread of socket s: what trade_on_market
\* (lines 203-210) or handle_new_bet (lines 118-125) did to the Subscription
\* Set and the table, or nothing
FrameEnd(s) ==
    /\ Alive
    /\ pc[s] = "on_message"
    /\ \E m \in Markets, failAt \in 0..1 :
         \/ FrameDone(s, SendState(connected), db)
         \/ \* an order was accepted: subscribe, then the row
            /\ NewContract \in wire[s]
            /\ LET b == subscribe_to_topics(SendState(connected),
                                            {BetTopic(m)}, FALSE, failAt)
               IN IF b.raised THEN FrameDone(s, b, db)
                  ELSE FrameDone(s, b, [db EXCEPT ![m] = [outcome |-> "YES", shares |-> 1]])
         \/ \* a position was sold: the row, then unsubscribe
            /\ BetTopic(m) \in wire[s]
            /\ auto_sell_threshold # Null
            /\ db[m].shares > 0
            /\ FrameDone(s, subscribe_to_topics(SendState(connected),
                                                {BetTopic(m)}, TRUE, failAt),
                         after_sell(m, "200"))

NextFrames ==
    \/ NextSession
    \/ \E s \in Slots : FrameBegin(s) \/ FrameEnd(s)

\* a bot with an empty table and no auto_sell_threshold configured
InitFrames ==
    /\ InitBot({NoPosition})
    /\ auto_sell_threshold = Null
    /\ slots = MaxSockets
    /\ kin = KellyExample

SpecFrames == InitFrames /\ [][NextFrames]_vars

\* trade_on_market lines 193-202 on the thread of socket s:
\* place_limit_order has returned the Bet
OrderAccepted(s) ==
    /\ Alive
    /\ pc[s] = "on_message"
    /\ NewContract \in wire[s]
    /\ pc' = [pc EXCEPT ![s] = "order_accepted"]
    /\ ev' = NoEv
    /\ UNCHANGED <<is_running, is_reconnecting, reconnect_attempts, ws, txid,
                   subscribed_topics, sock, ping, mainpc, wire, db, fixed>>

\* lines 203-210 on that thread: the subscription, then the row, and the
\* handler returns
OrderRecorded(s) ==
    /\ Alive
    /\ pc[s] = "order_accepted"
    /\ \E m \in Markets, failAt \in 0..1 :
         LET b == subscribe_to_topics(SendState(connected),
                                      {BetTopic(m)}, FALSE, failAt)
         IN IF b.raised THEN FrameDone(s, b, db)
            ELSE FrameDone(s, b, [db EXCEPT ![m] = [outcome |-> "YES", shares |-> 1]])

\* the frame handlers of three sockets, with the order of a new contract as
\* a step of its own
NextOrders ==
    \/ NextFrames
    \/ \E s \in Slots : OrderAccepted(s) \/ OrderRecorded(s)

SpecOrders == InitFrames /\ [][NextOrders]_vars

NextLive ==
    \/ NextFrames
    \/ \E s \in Slots : OracleHangs(s) \/ OrderAccepted(s) \/ OrderRecorded(s)

\* the same with two socket slots and the scheduling the code has: the main
\* loop wakes every second (line 452), and a thread that can take its next
\* step takes it: a handler whose calls return, a reconnect sequence, the
\* on_close of a closed socket, the ping thread. The network's doings
\* (LibDrop, the handshake of OnOpen), the operator's interrupt and an oracle
\* call that has not returned are under no such obligation.
InitLive ==
    /\ InitBot({NoPosition, [outcome |-> "YES", shares |-> 1]})
    /\ auto_sell_threshold = Num(9, 10)
    /\ slots = EventSockets
    /\ kin = KellyExample

SpecLive ==
    /\ InitLive
    /\ [][NextLive]_vars
    /\ WF_vars(RunReturn)
    /\ WF_vars(PingStep)
    /\ \A s \in Slots : /\ WF_vars(FrameEnd(s))
                        /\ WF_vars(OrderRecorded(s))
                        /\ WF_vars(OnClose(s))
                        /\ WF_vars(ArSleep(s))
                        /\ WF_vars(ArConnect(s))
                        /\ WF_vars(ArCheck(s))

\* ------------------------------------------------------ src/trade_database
\* The database file as SQLite holds it: whether the positions table exists,
\* and its rows. Times are counted in units of 10^9 ms (a bet of today has a
\* createdTime near 1700 units); shares are REAL on both sides.
StoreIds == {1, 2}
NoTable == [exists |-> FALSE, rows |-> {}]
BetTimes == {1700, 1701}
Clock == {1800, 1801}

\* pydantic's datetime from a number: seconds up to 2 * 10^10, milliseconds
\* above; the datetime as its milliseconds since the epoch
Watershed == 20
datetime(v) == IF v > Watershed THEN [ms |-> v] ELSE [ms |-> v * 1000]

\* an init_db that starts from an empty table
init_db_fresh(t) == [exists |-> TRUE, rows |-> {}]

\* MarketPositionDB.init_db: CREATE TABLE IF NOT EXISTS
init_db(t) == IF t.exists THEN t ELSE [exists |-> TRUE, rows |-> {}]

\* the row of lines 60-66
PositionRow(market_id, max_shares_outcome, total_shares, last_bet_time, now) ==
    [market_id |-> market_id, outcome |-> max_shares_outcome,
     shares |-> total_shares, entry_time |-> last_bet_time, last_updated |-> now]

\* an upsert that stores datetime.now() as the entry time
add_position_now(t, market_id, max_shares_outcome, total_shares, last_bet_time, now) ==
    [t EXCEPT !.rows = {r \in @ : r.market_id # market_id}
        \cup {PositionRow(market_id, max_shares_outcome, total_shares, now, now)}]

\* MarketPositionDB.add_position_limited: INSERT OR REPLACE on the primary key
add_position_limited(t, market_id, max_shares_outcome, total_shares, last_bet_time, now) ==
    [t EXCEPT !.rows = {r \in @ : r.market_id # market_id}
        \cup {PositionRow(market_id, max_shares_outcome, total_shares, last_bet_time, now)}]

\* MarketPositionDB.remove_position: DELETE ... WHERE market_id = ?
remove_position(t, market_id) ==
    [t EXCEPT !.rows = {r \in @ : r.market_id # market_id}]

\* SavedPosition(market_id=row[0], ..., last_updated=row[4])
SavedPosition(row) ==
    [market_id |-> row.market_id, outcome |-> row.outcome, shares |-> row.shares,
     entry_time |-> datetime(row.entry_time),
     last_updated |-> datetime(row.last_updated)]

\* MarketPositionDB.get_position: fetchone, as a set with the SavedPosition
\* or empty for None
get_position(t, market_id) ==
    LET rows == {r \in t.rows : r.market_id = market_id}
    IN IF rows = {} THEN {}
       ELSE {SavedPosition(CHOOSE r \in rows : TRUE)}

\* MarketPositionDB.get_all_positions: one SavedPosition per row
all_positions(t) == {SavedPosition(r) : r \in t.rows}

\* a new database file, before Bot.__init__
InitStore ==
    /\ is_running = FALSE
    /\ is_reconnecting = FALSE
    /\ reconnect_attempts = 0
    /\ ws = NoWs
    /\ txid = 0
    /\ subscribed_topics = {}
    /\ db = NoTable
    /\ sock = [s \in Slots |-> "free"]
    /\ pc = [s \in Slots |-> "idle"]
    /\ ping = 0
    /\ mainpc = "init"
    /\ wire = [s \in Slots |-> {}]
    /\ ev = NoEv
    /\ auto_sell_threshold = Null
    /\ slots = EventSockets
    /\ kin = KellyExample
    /\ kout = NoKelly
    /\ sender = [t \in Senders |-> NotSending]
    /\ sent = <<>>

\* Bot.__init__ (lines 36-37) at the first start, and at every restart of the
\* process on the same file
StoreOpen ==
    /\ db' = init_db(db)
    /\ ev' = [kind |-> "store", op |-> "init_db", m |-> 0,
              before |-> all_positions(db),
              got |-> {}, list |-> all_positions(db')]
    /\ UNCHANGED <<is_running, is_reconnecting, reconnect_attempts, ws, txid,
                   subscribed_topics, sock, pc, ping, mainpc, wire, fixed>>

\* a call of add_position_limited, then get_position and get_all_positions
StoreUpsert(m, side, shares, time, now) ==
    /\ db.exists
    /\ db' = add_position_limited(db, m, side, shares, time, now)
    /\ ev' = [kind |-> "store", op |-> "upsert", m |-> m,
              side |-> side, shares |-> shares, time |-> time,
              before |-> all_positions(db),
              got |-> get_position(db', m), list |-> all_positions(db')]
    /\ UNCHANGED <<is_running, is_reconnecting, reconnect_attempts, ws, txid,
                   subscribed_topics, sock, pc, ping, mainpc, wire, fixed>>

\* a call of remove_position, then get_position and get_all_positions
StoreRemove(m) ==
    /\ db.exists
    /\ db' = remove_position(db, m)
    /\ ev' = [kind |-> "store", op |-> "remove", m |-> m,
              before |-> all_positions(db),
              got |-> get_position(db', m), list |-> all_positions(db')]
    /\ UNCHANGED <<is_running, is_reconnecting, reconnect_attempts, ws, txid,
                   subscribed_topics, sock, pc, ping, mainpc, wire, fixed>>

NextStore ==
    \/ StoreOpen
    \/ \E m \in StoreIds :
         \/ StoreRemove(m)
         \/ \E side \in {"YES", "NO"}, shares \in {Num(1, 2), Num(3, 1)}, time \in BetTimes, now \in Clock :
              StoreUpsert(m, side, shares, time, now)

SpecStore == InitStore /\ [][NextStore]_vars

\* ------------------------------------------- the loops that pace requests
\* Bot.get_my_positions lines 73-78 (one subscribe message per saved
\* position) and populate_market_positions lines 37-43 (one position request
\* per market id): `if i > 0 and i % 500 == 0: time.sleep(60)` after the
\* request of item i.
ChunkSize == 500
MaxSaved == 1001
PacedLoops == {"get_my_positions", "populate_market_positions"}

InitPaced ==
    /\ InitBot({NoPosition})
    /\ auto_sell_threshold = Null
    /\ slots = EventSockets
    /\ kin = KellyExample

\* the loop is entered with n items
PacedStart(loop, n) ==
    /\ ev = NoEv
    /\ ev' = [kind |-> "paced", loop |-> loop, n |-> n, i |-> 0, at |-> "request",
              since |-> 0, sleeps |-> 0]
    /\ UNCHANGED <<is_running, is_reconnecting, reconnect_attempts, ws, txid,
                   subscribed_topics, db, sock, pc, ping, mainpc,
                   wire, fixed>>

\* the request of item i (line 76, or line 38)
PacedRequest ==
    /\ ev.kind = "paced" /\ ev.at = "request" /\ ev.i < ev.n
    /\ ev' = [ev EXCEPT !.since = @ + 1, !.at = "test"]
    /\ UNCHANGED <<is_running, is_reconnecting, reconnect_attempts, ws, txid,
                   subscribed_topics, db, sock, pc, ping, mainpc,
                   wire, fixed>>

\* the test after it (lines 77-78, or 42-43): the 60 second sleep, or not
PacedTest ==
    /\ ev.kind = "paced" /\ ev.at = "test"
    /\ IF ev.i > 0 /\ ev.i % ChunkSize = 0
       THEN ev' = [ev EXCEPT !.since = 0, !.sleeps = @ + 1, !.i = @ + 1, !.at = "request"]
       ELSE ev' = [ev EXCEPT !.i = @ + 1, !.at = "request"]
    /\ UNCHANGED <<is_running, is_reconnecting, reconnect_attempts, ws, txid,
                   subscribed_topics, db, sock, pc, ping, mainpc,
                   wire, fixed>>

NextPaced ==
    \/ \E loop \in PacedLoops, n \in {1, ChunkSize, MaxSaved} : PacedStart(loop, n)
    \/ PacedRequest
    \/ PacedTest

SpecPaced == InitPaced /\ [][NextPaced]_vars

\* ------------------------------------------------- the backoff delays
\* self.max_reconnect_attempts and self.base_reconnect_delay as __init__
\* sets them, and the cap of line 306; the delays are computed for all ten
\* attempts
AllAttempts == 10
base_reconnect_delay == 10
DelayCap == 300

RECURSIVE Pow2(_)
Pow2(k) == IF k = 0 THEN 1 ELSE 2 * Pow2(k - 1)

\* a delay that keeps doubling
reconnect_delay_uncapped(reconnect_attempts_now) ==
    base_reconnect_delay * Pow2(reconnect_attempts_now - 1)

\* lines 304-307: delay = min(base_reconnect_delay * 2 ** (attempts - 1), 300)
reconnect_delay(reconnect_attempts_now) ==
    LET d == base_reconnect_delay * Pow2(reconnect_attempts_now - 1)
    IN IF d < DelayCap THEN d ELSE DelayCap

\* random.uniform(0.1, 0.3), in hundredths
Jitters == 10..30

\* lines 309-310: jitter = uniform * delay, total_delay = delay + jitter
total_delay(delay, j) == RMul(Num(delay, 1), Num(100 + j, 100))

\* lines 297-317: the loop test, the counter, the delay the thread then sleeps
BackoffAttempt ==
    /\ is_running /\ reconnect_attempts < AllAttempts
    /\ reconnect_attempts' = reconnect_attempts + 1
    /\ is_reconnecting' = TRUE
    /\ \E j \in Jitters :
         LET delay == reconnect_delay(reconnect_attempts')
         IN ev' = [kind |-> "delay", n |-> reconnect_attempts', delay |-> delay,
                   total_delay |-> total_delay(delay, j)]
    /\ UNCHANGED <<is_running, ws, txid, subscribed_topics, db, sock, pc,
                   ping, mainpc, wire, fixed>>

\* lines 327-332 (the check finds the socket connected) and on_open lines
\* 356-357: the counter and the flag are reset
BackoffSuccess ==
    /\ is_running /\ reconnect_attempts > 0
    /\ reconnect_attempts' = 0
    /\ is_reconnecting' = FALSE
    /\ ev' = NoEv
    /\ UNCHANGED <<is_running, ws, txid, subscribed_topics, db, sock, pc,
                   ping, mainpc, wire, fixed>>

\* the first connection has just been lost
InitBackoff ==
    /\ is_running = TRUE
    /\ is_reconnecting = FALSE
    /\ reconnect_attempts = 0
    /\ ws = NoWs
    /\ txid = 0
    /\ subscribed_topics = {}
    /\ db = [m \in Markets |-> NoPosition]
    /\ sock = [s \in Slots |-> IF s = 1 THEN "closed" ELSE "free"]
    /\ pc = [s \in Slots |-> IF s = 1 THEN "run" ELSE "idle"]
    /\ ping = 0
    /\ mainpc = "loop"
    /\ wire = [s \in Slots |-> {}]
    /\ ev = NoEv
    /\ auto_sell_threshold = Null
    /\ slots = EventSockets
    /\ kin = KellyExample
    /\ kout = NoKelly
    /\ sender = [t \in Senders |-> NotSending]
    /\ sent = <<>>

NextBackoff == BackoffAttempt \/ BackoffSuccess

SpecBackoff == InitBackoff /\ [][NextBackoff]_vars

\* ------------------------------------------ the sends, statement by statement
\* One open connection, its socket's thread (the callbacks, which call
\* subscribe_to_topics) and its ping thread. Each builds its message from
\* self.txid, hands it to ws.send, and then runs `self.txid += 1`, a read and
\* a write of the attribute; no lock is held and the threads interleave
\* between any two of these.
MaxSent == 3

InitSends ==
    /\ is_running = TRUE
    /\ is_reconnecting = FALSE
    /\ reconnect_attempts = 0
    /\ ws = 1
    /\ txid = 0
    /\ subscribed_topics \in {tt \in SUBSET Topics : NewContract \in tt}
    /\ db = [m \in Markets |-> NoPosition]
    /\ sock = [s \in Slots |-> IF s = 1 THEN "open" ELSE "free"]
    /\ pc = [s \in Slots |-> IF s = 1 THEN "run" ELSE "idle"]
    /\ ping = 1
    /\ mainpc = "loop"
    /\ wire = [s \in Slots |-> IF s = 1 THEN subscribed_topics ELSE {}]
    /\ ev = NoEv
    /\ auto_sell_threshold = Null
    /\ slots = EventSockets
    /\ kin = KellyExample
    /\ kout = NoKelly
    /\ sender = [t \in Senders |-> NotSending]
    /\ sent = <<>>

\* ping_thread lines 396-407: the loop test, then the message
BuildPing ==
    /\ sender["ping"].at = "idle"
    /\ is_running /\ connected
    /\ txid < MaxTxid /\ Len(sent) < MaxSent
    /\ sender' = [sender EXCEPT !["ping"] =
                      [NotSending EXCEPT !.at = "built", !.txid = txid, !.type = "ping"]]
    /\ UNCHANGED <<is_running, is_reconnecting, reconnect_attempts, ws, txid,
                   subscribed_topics, db, sock, pc, ping, mainpc, wire,
                   ev, auto_sell_threshold, slots, kin, kout, sent>>

\* subscribe_to_topics lines 368-386, called in a callback: the filter, the
\* Subscription Set, then the message
BuildSubscribe(topics, unsubscribe) ==
    /\ sender["callback"].at = "idle"
    /\ connected
    /\ txid < MaxTxid /\ Len(sent) < MaxSent
    /\ LET topics_to_process ==
               IF unsubscribe THEN topics \cap subscribed_topics
               ELSE topics \ subscribed_topics
       IN /\ topics_to_process # {}
          /\ subscribed_topics' =
                 IF unsubscribe THEN subscribed_topics \ topics_to_process
                 ELSE subscribed_topics \cup topics_to_process
          /\ sender' = [sender EXCEPT !["callback"] =
                 [NotSending EXCEPT !.at = "built", !.txid = txid,
                                    !.type = IF unsubscribe THEN "unsubscribe" ELSE "subscribe",
                                    !.topics = topics_to_process]]
    /\ UNCHANGED <<is_running, is_reconnecting, reconnect_attempts, ws, txid,
                   db, sock, pc, ping, mainpc, wire, ev,
                   auto_sell_threshold, slots, kin, kout, sent>>

\* self.ws.send(json.dumps(message)), line 388 or 408, by thread t
SendMessage(t) ==
    /\ sender[t].at = "built"
    /\ sent' = Append(sent, sender[t].txid)
    /\ wire' = [wire EXCEPT ![ws] =
                   IF sender[t].type = "subscribe" THEN @ \cup sender[t].topics
                   ELSE IF sender[t].type = "unsubscribe" THEN @ \ sender[t].topics
                   ELSE @]
    /\ sender' = [sender EXCEPT ![t].at = "sent"]
    /\ UNCHANGED <<is_running, is_reconnecting, reconnect_attempts, ws, txid,
                   subscribed_topics, db, sock, pc, ping, mainpc, ev,
                   auto_sell_threshold, slots, kin, kout>>

\* self.txid += 1, line 389 or 409, by thread t: the read
LoadTxid(t) ==
    /\ sender[t].at = "sent"
    /\ sender' = [sender EXCEPT ![t].at = "loaded", ![t].loaded = txid]
    /\ UNCHANGED <<is_running, is_reconnecting, reconnect_attempts, ws, txid,
                   subscribed_topics, db, sock, pc, ping, mainpc, wire,
                   ev, auto_sell_threshold, slots, kin, kout, sent>>

\* self.txid += 1 by thread t: the write
StoreTxid(t) ==
    /\ sender[t].at = "loaded"
    /\ txid' = sender[t].loaded + 1
    /\ sender' = [sender EXCEPT ![t] = NotSending]
    /\ UNCHANGED <<is_running, is_reconnecting, reconnect_attempts, ws,
                   subscribed_topics, db, sock, pc, ping, mainpc, wire,
                   ev, auto_sell_threshold, slots, kin, kout, sent>>

NextSends ==
    \/ BuildPing
    \/ \E topics \in SUBSET Topics, unsubscribe \in BOOLEAN : BuildSubscribe(topics, unsubscribe)
    \/ \E t \in Senders : SendMessage(t) \/ LoadTxid(t) \/ StoreTxid(t)

SpecSends == InitSends /\ [][NextSends]_vars

\* ------------------------------------------- subscribe_to_topics on its own
\* a running bot whose socket 1 is self.ws, open or just closed, with any
\* Subscription Set and any set of topics held by the server
\* -------------------------------------------- the keepalive against time
\* One open connection whose server acknowledges every ping at once. The
\* ping thread (Bot.ping_thread) and the socket's thread (run_forever, which
\* calls Bot.on_message for each frame in turn) run against a clock in
\* seconds; the state is kept in ev.
PingInterval == 30
AckWindow == 120
MaxClock == 240

InitKeepalive ==
    /\ InitBot({NoPosition})
    /\ auto_sell_threshold = Null
    /\ slots = EventSockets
    /\ kin = KellyExample

\* the fields of the Bot, which the steps of this section leave alone
BotUnchanged ==
    UNCHANGED <<is_running, is_reconnecting, reconnect_attempts, ws, txid,
                subscribed_topics, db, sock, pc, ping, mainpc, wire, fixed>>

\* line 394: the ping thread starts at time `now`
KeepaliveStart ==
    /\ ev = NoEv
    /\ \E now \in {0, PingInterval} :
         ev' = [kind |-> "keepalive", now |-> now, last_ack_time |-> now,
                wake |-> now,        \* when the ping thread's sleep ends
                unread |-> 0,        \* acks received by the socket, not yet read
                handling |-> FALSE,  \* on_message is inside an event
                closed |-> FALSE]    \* the ping thread closed the connection
    /\ BotUnchanged

\* lines 396-411: one round of the ping thread; the server's ack arrives at once
PingRound ==
    /\ ev.kind = "keepalive" /\ ~ev.closed /\ ev.wake = ev.now
    /\ IF ev.now - ev.last_ack_time > AckWindow
       THEN ev' = [ev EXCEPT !.closed = TRUE]
       ELSE ev' = [ev EXCEPT !.unread = @ + 1, !.wake = ev.now + PingInterval]
    /\ BotUnchanged

\* lines 221-224: on_message reads an ack
AckRead ==
    /\ ev.kind = "keepalive" /\ ~ev.closed /\ ~ev.handling /\ ev.unread > 0
    /\ ev' = [ev EXCEPT !.unread = @ - 1, !.last_ack_time = ev.now]
    /\ BotUnchanged

\* lines 226-263: on_message is called for a broadcast (the market fetch, the
\* oracle call, the order)
EventBegins ==
    /\ ev.kind = "keepalive" /\ ~ev.closed /\ ~ev.handling /\ ev.unread = 0
    /\ ev' = [ev EXCEPT !.handling = TRUE]
    /\ BotUnchanged

\* on_message returns
EventEnds ==
    /\ ev.kind = "keepalive" /\ ~ev.closed /\ ev.handling
    /\ ev' = [ev EXCEPT !.handling = FALSE]
    /\ BotUnchanged

\* time passes: the ping thread is asleep, and the socket's thread has read
\* what there was to read unless it is inside an event
Tick ==
    /\ ev.kind = "keepalive" /\ ~ev.closed
    /\ ev.now < MaxClock
    /\ ev.wake > ev.now
    /\ ev.handling \/ ev.unread = 0
    /\ ev' = [ev EXCEPT !.now = @ + PingInterval]
    /\ BotUnchanged

NextKeepalive ==
    KeepaliveStart \/ PingRound \/ AckRead \/ EventBegins \/ EventEnds \/ Tick

SpecKeepalive == InitKeepalive /\ [][NextKeepalive]_vars

\* ------------------------------------------------------ src/timeout.py
\* run_with_timeout(func, timeout) against a clock in seconds; func takes
\* `takes` seconds and then returns or raises, or never finishes
MaxSeconds == 6
Never == 99
Timeouts == 1..3
Durations == (0..MaxSeconds) \cup {Never}

InitTimeout ==
    /\ InitBot({NoPosition})
    /\ auto_sell_threshold = Null
    /\ slots = EventSockets
    /\ kin = KellyExample

\* lines 12-13: the executor is created and func submitted to its worker
TimeoutCall(timeout, takes, outcome) ==
    /\ ev = NoEv
    /\ ev' = [kind |-> "run_with_timeout", timeout |-> timeout, takes |-> takes,
              outcome |-> outcome,   \* what func does when it finishes
              at |-> "result", now |-> 0,
              pending |-> "-",       \* what is on its way to the caller
              to_caller |-> "-"]     \* what the caller got, at time `now`
    /\ BotUnchanged

\* lines 14-17: future.result(timeout=timeout) returns func's result, raises
\* func's exception, or times out and TimeoutError is raised
FutureResult ==
    /\ ev.kind = "run_with_timeout" /\ ev.at = "result"
    /\ IF ev.takes <= ev.timeout
       THEN ev' = [ev EXCEPT !.now = ev.takes, !.pending = ev.outcome, !.at = "exit"]
       ELSE ev' = [ev EXCEPT !.now = ev.timeout, !.pending = "TimeoutError", !.at = "exit"]
    /\ BotUnchanged

\* line 12: leaving the with block, by return or by exception, runs the
\* executor's __exit__, which is shutdown(wait=True): it returns when the
\* worker has finished func
ExecutorExit ==
    /\ ev.kind = "run_with_timeout" /\ ev.at = "exit"
    /\ ev.takes # Never
    /\ ev' = [ev EXCEPT !.now = IF ev.takes > @ THEN ev.takes ELSE @,
                        !.to_caller = ev.pending, !.at = "done"]
    /\ BotUnchanged

NextTimeout ==
    \/ \E timeout \in Timeouts, takes \in Durations, outcome \in {"result", "exception"} :
         TimeoutCall(timeout, takes, outcome)
    \/ FutureResult
    \/ ExecutorExit

SpecTimeout == InitTimeout /\ [][NextTimeout]_vars

InitSubscribe ==
    /\ is_running = TRUE
    /\ is_reconnecting = FALSE
    /\ reconnect_attempts = 0
    /\ ws = 1
    /\ txid \in 0..1
    /\ subscribed_topics \in SUBSET Topics
    /\ db = [m \in Markets |-> NoPosition]
    /\ \E st \in {"open", "closed"} :
         sock = [s \in Slots |-> IF s = 1 THEN st ELSE "free"]
    /\ pc = [s \in Slots |-> IF s = 1 THEN "run" ELSE "idle"]
    /\ ping = 0
    /\ mainpc = "loop"
    /\ \E held \in SUBSET Topics :
         wire = [s \in Slots |-> IF s = 1 THEN held ELSE {}]
    /\ ev = NoEv
    /\ auto_sell_threshold = Null
    /\ slots = EventSockets
    /\ kin = KellyExample
    /\ kout = NoKelly
    /\ sender = [t \in Senders |-> NotSending]
    /\ sent = <<>>

\* a call self.subscribe_to_topics(topics, unsubscribe)
SubscribeCall(topics, unsubscribe, failAt) ==
    /\ ev = NoEv
    /\ LET b == subscribe_to_topics(SendState(connected), topics, unsubscribe, failAt)
       IN /\ subscribed_topics' = b.subs
          /\ txid' = b.txid
          /\ wire' = b.wire
          /\ ev' = [kind |-> "subscribe", topics |-> topics,
                    unsubscribe |-> unsubscribe, sends |-> b.sends,
                    raised |-> b.raised]
    /\ UNCHANGED <<is_running, is_reconnecting, reconnect_attempts, ws, db, sock,
                   pc, ping, mainpc, fixed>>

NextSubscribe ==
    \E topics \in SUBSET Topics, unsubscribe \in BOOLEAN, failAt \in 0..1 :
        SubscribeCall(topics, unsubscribe, failAt)

SpecSubscribe == InitSubscribe /\ [][NextSubscribe]_vars

\* ================================================================ claims
\* threads of socket slots that are inside the loop of attempt_reconnection
Reconnecting == {s \in Slots : pc[s] \in {"ar_sleep", "ar_connect", "ar_check"}}

\* C1: at most one reconnect sequence (the attempt_reconnection loop) is
\* active at any time, whatever the interleaving of close events, open events
\* and a running sequence.
C1_OneReconnectSequence == Cardinality(Reconnecting) <= 1

\* C2: once the Session Manager is permanently failed (is_running false after
\* the attempts ran out, the process not yet ended) no further connection
\* attempt is issued: no new socket starts connecting.
C2_NoAttemptAfterFailure ==
    [][(mainpc = "loop" /\ ~is_running)
          => \A s \in Slots : ~(sock[s] # "connecting" /\ sock'[s] = "connecting")]_vars

\* C3: the Subscription Set is empty at the moment any connection becomes
\* Open (entry to on_open), for the first connect and every reconnect.
C3_EmptyAtOpen ==
    [][\A s \in Slots : (sock[s] = "connecting" /\ sock'[s] = "open")
          => subscribed_topics = {}]_vars

\* the topics on_open has to subscribe: global/new-contract and the bet topic
\* of every market with a row in the table
WantedTopics == {NewContract} \cup {BetTopic(m) : m \in {x \in Markets : db[x] # NoPosition}}

\* C4: after a connect or reconnect succeeded and on_open ran without a send
\* raising, a subscribe message for global/new-contract and for the bet topic
\* of every market with a stored Position has been sent on that connection.
C4_SubscribedOnOpen ==
    [][\A s \in Slots : OnOpenWith(s, 0) => WantedTopics \subseteq wire'[s]]_vars

\* C5 (as stated): when the sell is rejected (non-200) or any call in
\* handle_new_bet raises, the Position and the Subscription Set are left
\* exactly as they were.
C5_UntouchedOnAnyFailure ==
    [][(ev'.kind = "bet" /\ (ev'.sell # "200" \/ ev'.raised))
          => (db' = db /\ subscribed_topics' = subscribed_topics)]_vars

\* C5 (amended): the Exit Monitor removes a Position only after the sell
\* request for that market answered 200, and then removes that market's row
\* alone; when the sell is rejected (non-200), or the sell request or any
\* call before it raises, the Position and the Subscription Set are left
\* exactly as they were.
C5_RemovedOnlyAfterSell ==
    [][ev'.kind = "bet"
          => /\ db' # db => (ev'.sell = "200"
                             /\ db' = [db EXCEPT ![ev'.m] = NoPosition])
             /\ ev'.sell # "200"
                  => (db' = db /\ subscribed_topics' = subscribed_topics)]_vars

\* C5 witness: a sell was requested and rejected, and the row is still there
C5_RejectedSellKeepsRow ==
    /\ ev.kind = "bet"
    /\ ev.sells = 1 /\ ev.sell = "400"
    /\ db[ev.m] = ev.position /\ ev.position # NoPosition

\* C6: whenever the platform accepted an order of trade_on_market for market
\* M (and the database write itself did not fail), at the end of the event
\* the table holds a row for M and contract/M/new-bet is in the Subscription
\* Set.
C6_AcceptedOrderRecorded ==
    (ev.kind = "market" /\ ev.accepted /\ ev.store # "raised")
        => (db[ev.m] # NoPosition /\ BetTopic(ev.m) \in subscribed_topics)

\* C7: the market probability handed to kelly_bet is the probability field
\* of the fetched snapshot, and FullMarket keeps every fetched field under
\* its own name.
C7_SnapshotPreserved ==
    (ev.kind = "market" /\ ev.fetched)
        => \A d \in ev.data :
              /\ \A f \in DOMAIN d : FullMarket(d)[f] = d[f]
              /\ ev.stake # NoKelly => ev.c = d.probability

\* payout fraction >= threshold, for a held side and a fetched probability
\* r, in cross-multiplied integers
PayoutReaches(outcome, r, threshold) ==
    IF outcome = "YES" THEN r.n * threshold.d >= threshold.n * r.d
    ELSE (r.d - r.n) * threshold.d >= threshold.n * r.d

\* C8: on a new-bet event for a market whose stored Position has shares > 0,
\* with a threshold configured and a probability fetched, exactly one sell
\* request is submitted when the payout fraction of the held side is >= the
\* threshold, and none when it is below.
C8_SellAtThreshold ==
    (/\ ev.kind = "bet"
     /\ ev.position.shares > 0
     /\ auto_sell_threshold # Null
     /\ IsNum(ev.prob))
        => ev.sells = IF PayoutReaches(ev.position.outcome, ev.prob,
                                       auto_sell_threshold)
                      THEN 1 ELSE 0

\* C8 witness: held YES, payout exactly at the threshold, one sell request
C8_SoldAtThreshold ==
    /\ ev.kind = "bet"
    /\ ev.position = [outcome |-> "YES", shares |-> 1]
    /\ ev.prob = auto_sell_threshold
    /\ ev.sells = 1

\* amount = min(bankroll * num / den, max_bet_amount), in integers
IsCapped(amount, bankroll, num, den, max_bet_amount) ==
    IF bankroll.n * num * max_bet_amount.d <= max_bet_amount.n * den * bankroll.d
    THEN amount.n * den * bankroll.d = bankroll.n * num * amount.d
    ELSE amount.n * max_bet_amount.d = max_bet_amount.n * amount.d

\* C9: for p, c in (0,1), alpha in (0,1], bankroll B > 0 and cap M > 0,
\* kelly_bet returns amount 0 when p = c; side YES and amount
\* min(B*alpha*(p-c)/(1-c), M) > 0 when p > c; side NO and amount
\* min(B*alpha*(c-p)/c, M) when p < c; the amount never exceeds min(B, M);
\* p=0.6, c=0.4, alpha=1, B=1000, M=100 gives 100 on YES.
C9_KellyReference ==
    (/\ kout # NoKelly
     /\ 0 < kin.p.n /\ kin.p.n < kin.p.d
     /\ 0 < kin.c.n /\ kin.c.n < kin.c.d)
        => LET pn == kin.p.n * kin.c.d
               cn == kin.c.n * kin.p.d
               one == kin.p.d * kin.c.d
               a == kout.amount
           IN /\ IsNum(a)
              /\ pn = cn => a.n = 0
              /\ pn > cn => /\ kout.side = "YES"
                            /\ a.n > 0
                            /\ IsCapped(a, kin.bankroll, kin.alpha.n * (pn - cn),
                                        kin.alpha.d * (one - cn), kin.max_bet_amount)
              /\ pn < cn => /\ kout.side = "NO"
                            /\ IsCapped(a, kin.bankroll, kin.alpha.n * (cn - pn),
                                        kin.alpha.d * cn, kin.max_bet_amount)
              /\ a.n * kin.bankroll.d <= kin.bankroll.n * a.d
              /\ a.n * kin.max_bet_amount.d <= kin.max_bet_amount.n * a.d
              /\ kin = KellyExample => (kout.side = "YES" /\ a.n = 100 * a.d)

\* C9 witness: the example call has returned 100 on YES
C9_ExampleComputed ==
    /\ kin = KellyExample
    /\ kout.side = "YES"
    /\ IsNum(kout.amount) /\ kout.amount.n = 100 * kout.amount.d

\* the snapshot d and the bankroll make the market ineligible
Ineligible(d, bankroll) ==
    \/ d.outcomeType # "BINARY"
    \/ d.groupSlugs \cap config.exclude_groups # {}
    \/ /\ IsNum(bankroll)
       /\ bankroll.n * config.max_trade_amount.d
              < config.max_trade_amount.n * bankroll.d

\* C10: for a new-market event whose market is not binary, or carries a
\* configured excluded group, or arrives with the bankroll below the
\* configured trade floor, the pipeline makes no oracle call, submits no
\* order, and changes neither the table nor the Subscription Set.
C10_IneligibleUntouched ==
    [][(ev'.kind = "market" /\ ev = NoEv /\ ev'.fetched
          /\ \E d \in ev'.data : Ineligible(d, ev'.bankroll))
          => /\ ev'.oracle = 0 /\ ev'.orders = 0
             /\ db' = db
             /\ subscribed_topics' = subscribed_topics]_vars

\* C10 witness: an event for a market in an excluded group, with a bankroll
\* above the floor, was handled without an oracle call
C10_ExcludedSkipped ==
    /\ ev.kind = "market" /\ ev.fetched
    /\ \E d \in ev.data : d.groupSlugs = {"excluded"}
    /\ ev.bankroll = Num(1000, 1)
    /\ ev.oracle = 0 /\ ev.orders = 0

\* C11: no order is ever submitted for a market that is resolved or not
\* binary.
C11_OnlyOpenBinaryTraded ==
    (ev.kind = "market" /\ ev.orders > 0)
        => \A d \in ev.data : (d.outcomeType = "BINARY" /\ d.isResolved = Bool(FALSE))

\* C12: while the connection is Open, subscribing to topics that are all in
\* the Subscription Set, or unsubscribing from topics none of which is in
\* it, sends no message and leaves the set, the transaction id and the
\* server untouched; otherwise one message is sent, naming exactly the
\* topics that were new (or, unsubscribing, present).
C12_SubscribeIdempotent ==
    [][(ev'.kind = "subscribe" /\ connected /\ ~ev'.raised)
          => LET named == IF ev'.unsubscribe
                          THEN ev'.topics \cap subscribed_topics
                          ELSE ev'.topics \ subscribed_topics
             IN /\ named = {} => /\ ev'.sends = 0
                                 /\ subscribed_topics' = subscribed_topics
                                 /\ txid' = txid
                                 /\ wire' = wire
                /\ named # {} => /\ ev'.sends = 1
                                 /\ txid' = txid + 1
                                 /\ wire'[ws] = IF ev'.unsubscribe
                                                THEN wire[ws] \ named
                                                ELSE wire[ws] \cup named]_vars

\* C12 witness: a subscribe call mixing a topic of the set with a new one,
\* on an open connection whose server held nothing, sent one message naming
\* the new one
C12_MixedCallSentNewOnly ==
    /\ ev.kind = "subscribe" /\ ~ev.unsubscribe /\ ev.topics = Topics
    /\ sock[1] = "open"
    /\ ev.sends = 1
    /\ subscribed_topics = Topics
    /\ wire[1] = {BetTopic(1)}

\* C13: while the bot is running, a connection that is Open is watched by
\* the keepalive task, which pings it and closes it when no acknowledgement
\* arrives: the connection is the one self.ws names and a ping thread is
\* alive.
C13_OpenConnectionWatched ==
    \A s \in Slots :
        (is_running /\ mainpc = "loop" /\ sock[s] = "open" /\ pc[s] = "run")
            => (ws = s /\ ping > 0)

\* C18: at no time are two sockets created by the bot Open simultaneously.
C18_OneOpenSocket == Cardinality({s \in Slots : sock[s] = "open"}) <= 1

\* C14: a subscribe send that fails while an event is handled leads to the
\* connection being closed (and so to a reconnect), as a failed ping does.
C14_SendFailureCloses ==
    [][(ev'.kind = "market" /\ ev'.accepted /\ ev'.raised /\ ev'.store = "-")
          => (ws # NoWs /\ sock'[ws] = "closed")]_vars

\* C15: an exception raised while one inbound frame is handled does not
\* escape on_message: the flags, the counter, the sockets and every thread,
\* the handling one included, are where they were, so the thread goes on to
\* its next frame.
C15_ExceptionStaysInHandler ==
    [][(ev = NoEv /\ ev' # NoEv /\ ev'.raised)
          => /\ is_running' = is_running
             /\ is_reconnecting' = is_reconnecting
             /\ reconnect_attempts' = reconnect_attempts
             /\ ws' = ws
             /\ sock' = sock
             /\ pc' = pc
             /\ mainpc' = mainpc]_vars

\* C15 witness: the oracle call of a new-market event raised, and the
\* socket's thread is still in run_forever on its open socket
C15_OracleFailureSurvived ==
    /\ ev.kind = "market" /\ ev.raised
    /\ ev.oracle = 1 /\ ev.stake = NoKelly
    /\ \E s \in Slots : pc[s] = "run" /\ sock[s] = "open" /\ NewContract \in wire[s]

\* C17: at most one thread is inside the event handler at any time
C17_OneHandlerAtATime == Cardinality(Handling) <= 1

\* C16: while run() is in its loop the running flag falls only when the
\* reconnect attempts are exhausted, and once it has fallen run() returns
C16_ExhaustionStopsRun ==
    /\ [][(mainpc = "loop" /\ mainpc' = "loop" /\ is_running /\ ~is_running')
            => reconnect_attempts' >= max_reconnect_attempts]_vars
    /\ ((mainpc = "loop" /\ ~is_running) ~> (mainpc = "done"))

C16_Exhausted ==
    /\ mainpc = "loop" /\ ~is_running
    /\ reconnect_attempts = max_reconnect_attempts
    /\ \A s \in Slots : pc[s] = "idle"

\* C20: the bot's only thread, whose oracle call does not return, leaves the
\* call all the same, so that its socket's next frames are processed
C20_SlowOracleGivenUp == \A s \in Slots : (pc[s] = "oracle_wait" /\ Handling = {s} /\ \A t \in Slots \ {s} : pc[t] = "idle") ~> (pc[s] # "oracle_wait")

\* C19: in dry-run mode place_limit_order sends no order-submission request
\* to the platform
C19_DryRunPostsNothing == (ev.kind = "order" /\ ev.args.dry_run) => ev.posts = <<>>

\* C21: when the handling of a new-bet event got status 200 for its sell
\* request and no call raised, the market's row is gone and its bet topic is
\* out of the Subscription Set
C21_SoldMeansGone == (ev.kind = "bet" /\ ev.sell = "200" /\ ~ev.raised) => (db[ev.m] = NoPosition /\ BetTopic(ev.m) \notin subscribed_topics)

\* C22: a new-bet event for a market without a row, or with no
\* auto_sell_threshold configured, fetches no probability, requests no sell,
\* raises nothing and leaves the table, the Subscription Set and the socket
\* as they were
C22_NothingHeldNoOp ==
    [][(ev = NoEv /\ ev'.kind = "bet" /\ ev'.got
        /\ (db[ev'.m] = NoPosition \/ auto_sell_threshold = Null))
       => (/\ ev'.probs = 0 /\ ev'.sells = 0 /\ ~ev'.raised
           /\ db' = db /\ subscribed_topics' = subscribed_topics
           /\ txid' = txid /\ wire' = wire)]_vars

C22_UnheldMarketBet ==
    /\ ev.kind = "bet" /\ ev.got /\ ev.probs = 0
    /\ db[ev.m] = NoPosition
    /\ auto_sell_threshold # Null
    /\ BetTopic(ev.m) \in subscribed_topics

\* C23: a stake of zero submits no order, and the order that is submitted
\* carries the oracle's estimate as its limit probability, 0.01 in place of
\* an estimate of 0, so never 0
C23_LimitIsEstimate ==
    ev.kind = "stake" =>
        /\ REq(ev.stake.amount, Zero) => ev.request.orders = 0
        /\ ev.request.orders > 0 =>
             /\ ~REq(ev.request.limit, Zero)
             /\ IF REq(ev.probability_estimate, Zero)
                THEN REq(ev.request.limit, Num(1, 100))
                ELSE ev.request.limit = ev.probability_estimate

C23_ZeroEstimateOrdered ==
    /\ ev.kind = "stake"
    /\ REq(ev.probability_estimate, Zero)
    /\ ev.request.orders = 1 /\ ev.stake.side = "NO"
    /\ ev.request.limit = Num(1, 100)

\* C24: the messages sent on one connection carry strictly increasing txids
C24_TxidsIncrease == \A i, j \in 1..Len(sent) : i < j => sent[i] < sent[j]

BackoffTable == <<10, 20, 40, 80, 160, 300, 300, 300, 300, 300>>

\* C25: the delay before the n-th consecutive attempt is 10, 20, 40, 80, 160
\* and from the sixth on 300 seconds, the sleep is that plus 10% to 30% of
\* it, and a success puts the counter back to zero, so that the next
\* attempt waits 10 seconds again
C25_BackoffDelays ==
    /\ [](ev.kind = "delay" =>
            /\ ev.n = reconnect_attempts
            /\ ev.delay = BackoffTable[ev.n]
            /\ 10 * ev.total_delay.n >= 11 * ev.delay * ev.total_delay.d
            /\ 10 * ev.total_delay.n <= 13 * ev.delay * ev.total_delay.d)
    /\ [][(ev.kind = "delay" /\ ev' = NoEv) => reconnect_attempts' = 0]_vars
    /\ [][(ev = NoEv /\ ev'.kind = "delay") => ev'.delay = 10]_vars

C25_CappedDelay ==
    /\ ev.kind = "delay" /\ ev.n = 6 /\ ev.delay = 300
    /\ ev.total_delay = Num(39000, 100)

\* C26: once the running flag is down and run() has not yet returned, no
\* socket of the bot opens and none starts connecting
C26_ShutdownClosesSockets ==
    [][(mainpc = "loop" /\ ~is_running /\ mainpc' = "loop")
          => \A s \in Slots : /\ sock'[s] = "open" => sock[s] = "open"
                              /\ sock'[s] = "connecting" => sock[s] = "connecting"]_vars

\* C27: the process does not end while a thread is between an accepted order
\* and the write of its row
C27_NoExitBeforeRecord ==
    [][(\E s \in Slots : pc[s] = "order_accepted") => mainpc' # "done"]_vars

\* C28: get after upsert returns the upserted side, shares and time; get
\* after remove returns nothing; a remove leaves the Positions of the other
\* market ids as they were, all of them when the id had none
C28_StoreRoundTrip ==
    ev.kind = "store" =>
        /\ ev.op = "upsert" =>
             \E p \in ev.got : /\ ev.got = {p}
                               /\ p.market_id = ev.m
                               /\ p.outcome = ev.side
                               /\ p.shares = ev.shares
                               /\ p.entry_time.ms = ev.time
        /\ ev.op = "remove" =>
             /\ ev.got = {}
             /\ ev.list = {p \in ev.before : p.market_id # ev.m}
             /\ (\A p \in ev.before : p.market_id # ev.m) => ev.list = ev.before

C28_UpsertOverOtherSide ==
    /\ ev.kind = "store" /\ ev.op = "upsert"
    /\ \E p \in ev.before : p.market_id = ev.m /\ p.outcome # ev.side /\ p.entry_time.ms # ev.time
    /\ \E p \in ev.before : p.market_id # ev.m

StoredIds(list) == {p.market_id : p \in list}

\* C29: the table holds one Position per market id, the last upsert's; list
\* returns the ids upserted and not removed since, one entry each; init_db on
\* an existing table changes nothing
C29_OnePositionPerId ==
    ev.kind = "store" =>
        /\ \A p, q \in ev.list : p.market_id = q.market_id => p = q
        /\ Cardinality(ev.list) = Cardinality(StoredIds(ev.list))
        /\ ev.op = "upsert" =>
             /\ StoredIds(ev.list) = StoredIds(ev.before) \cup {ev.m}
             /\ ev.list = {p \in ev.before : p.market_id # ev.m} \cup ev.got
             /\ \A p \in ev.got : p.outcome = ev.side /\ p.shares = ev.shares
                                  /\ p.entry_time.ms = ev.time
        /\ ev.op = "remove" => StoredIds(ev.list) = StoredIds(ev.before) \ {ev.m}
        /\ ev.op = "init_db" => (ev.list = ev.before /\ db.exists)

C29_RestartWithTwoPositions ==
    /\ ev.kind = "store" /\ ev.op = "init_db"
    /\ StoredIds(ev.list) = StoreIds

\* C30: no more than 500 requests are issued without a 60 second sleep
\* between them, the first batch included
C30_AtMost500PerBatch == ev.kind = "paced" => ev.since <= 500

\* C31: a row written by the handling of a new-market event holds a nonzero
\* share count on its recorded side
C31_RecordedSharesNonzero == (ev.kind = "market" /\ ev.store = "ok") => db[ev.m].shares > 0

\* C32: no step of a ping thread and no step of a reconnect sequence (from
\* its start in on_close to its last check) changes the table of Positions
C32_KeepaliveAndBackoffLeaveStore ==
    [][(PingStep \/ \E s \in Slots : OnClose(s) \/ ArSleep(s) \/ ArConnect(s) \/ ArCheck(s))
          => db' = db]_vars

\* C32 witness: a Position is stored, the ping threads have ended and the
\* reconnect sequence is at the check of its second attempt
C32_ReconnectedWithPositionStored ==
    /\ \E m \in Markets : db[m].shares > 0
    /\ \E s \in Slots : pc[s] = "ar_check"
    /\ reconnect_attempts = 2
    /\ ping = 0

\* C33: the broadcast of a new market leads to at most one order: no two
\* threads have each had an order accepted for it
C33_OneOrderPerEvent == Cardinality({s \in Slots : pc[s] = "order_accepted"}) <= 1

\* C34: a call of subscribe_to_topics whose send raises leaves the
\* Subscription Set as it was: a topic whose subscribe was not sent is not in
\* the set, and a topic whose unsubscribe was not sent is not dropped from it
C34_FailedSendLeavesSet ==
    [][(ev'.kind = "subscribe" /\ ev'.raised) => subscribed_topics' = subscribed_topics]_vars

\* C35: the on_close of a socket that is no longer the bot's socket leaves
\* the handle, the Subscription Set and the txid of the current session as
\* they are, and every Open socket is the one the handle names
C35_StaleCloseIgnored ==
    /\ [][\A s \in Slots : (OnClose(s) /\ ws \notin {s, NoWs})
             => (ws' = ws /\ subscribed_topics' = subscribed_topics /\ txid' = txid)]_vars
    /\ [](\A s \in Slots : sock[s] = "open" => ws = s)

\* C36: the connect step of a reconnect sequence closes no socket that is
\* Open
C36_SequenceKeepsOpenSocket ==
    [][\A s \in Slots : ArConnect(s)
          => \A k \in Slots : sock[k] = "open" => sock'[k] = "open"]_vars

\* C37: at most one ping thread is alive, however many connections the bot
\* has opened
C37_OneKeepaliveTask == ping <= 1

\* C38: on a connection whose server acknowledges every ping at once, the
\* ping thread never closes the connection
C38_AckedConnectionKept == ev.kind = "keepalive" => ~ev.closed

\* C39: a new-bet event whose probability fetch raised, or whose response
\* carried no probability, requests no sell and leaves the market's row as it
\* was
C39_NoSellWithoutProbability ==
    (ev.kind = "bet" /\ ev.probs = 1 /\ ev.prob \in {Raised, Null})
        => (ev.sells = 0 /\ db[ev.m] = ev.position)

\* C40: a call whose func is still running when the timeout elapses hands
\* TimeoutError to its caller at that moment; a call whose func finishes in
\* time hands func's result or exception to its caller when func finishes
C40_TimeoutReturnsControl ==
    (ev.kind = "run_with_timeout" /\ ev.at = "done")
        => IF ev.takes <= ev.timeout
           THEN ev.to_caller = ev.outcome /\ ev.now = ev.takes
           ELSE ev.to_caller = "TimeoutError" /\ ev.now = ev.timeout

====
